---- MODULE Spec2Model ----
\* A model of src/codegen/impl_debug.rs: the generator of `impl Debug` bodies.
\*
\*   gen_debug_impl            builds the format string and the token list of a
\*                             record (struct or union);
\*   FieldData::impl_debug     one data member;
\*   BitfieldUnit::impl_debug  one bitfield allocation unit;
\*   Item::impl_debug          the per-type decision, recursive through aliases.
\*
\* Strings are TLA+ strings, built with \o exactly as the code builds them with
\* format! and push_str; a quote::Tokens value is the text of its tokens.
EXTENDS Integers, Sequences, FiniteSets, TLC

VARIABLES
    mode,           \* "item": one call of Item::impl_debug; "record": one call of gen_debug_impl
    ctx,            \* the BindgenContext: its items, the whitelisted ids, the opaque ids
    name,           \* item mode: the `name` argument of Item::impl_debug
    cur,            \* item mode: the ItemId `self` of the active Item::impl_debug frame
    calls,          \* item mode: number of Item::impl_debug frames entered so far
    result,         \* item mode: the Option<(String, Vec<Tokens>)> returned
    rec,            \* record mode: the arguments of gen_debug_impl (item, kind, fields)
    fi,             \* record mode: index of the next field the iterator yields
    i,              \* record mode: the enumerate() counter of the loop at line 32
    format_string,  \* record mode: the local of that name (line 15)
    tokens,         \* record mode: the local of that name (line 16)
    ncalls,         \* record mode: number of field-level impl_debug calls made (lines 27-28)
    out,            \* record mode: the arguments handed to write! (line 48)
    pc              \* position of the call

vars == <<mode, ctx, name, cur, calls, result, rec, fi, i, format_string, tokens, ncalls, out, pc>>

-----------------------------------------------------------------------------
\* Bounds of the model.

\* Longest chain of items (an item, what it refers to, and so on).
MaxChain == 3

\* Most fields a record has.
MaxFields == 3

\* ir::ty::RUST_DERIVE_IN_ARRAY_LIMIT, imported at line 5.
RUST_DERIVE_IN_ARRAY_LIMIT == 32

-----------------------------------------------------------------------------
\* Strings.

\* Whether `sub` occurs in `s` at position p.
OccursAt(s, sub, p) ==
    /\ p >= 1
    /\ p + Len(sub) - 1 <= Len(s)
    /\ SubSeq(s, p, p + Len(sub) - 1) = sub

StartsWith(s, sub) == OccursAt(s, sub, 1)

EndsWith(s, sub) == OccursAt(s, sub, Len(s) - Len(sub) + 1)

Contains(s, sub) == \E p \in 1..Len(s) : OccursAt(s, sub, p)

\* std::fmt's reading of a format string from position p on: "{{" and "}}" are
\* escaped braces, any other "{" opens an argument that runs to the next "}".
\* The number of arguments the string consumes.
RECURSIVE CloseOf(_, _)
CloseOf(s, p) ==
    IF p > Len(s) THEN p
    ELSE IF OccursAt(s, "}", p) THEN p
    ELSE CloseOf(s, p + 1)

RECURSIVE PlaceholdersFrom(_, _)
PlaceholdersFrom(s, p) ==
    IF p > Len(s) THEN 0
    ELSE IF OccursAt(s, "{{", p) \/ OccursAt(s, "}}", p) THEN PlaceholdersFrom(s, p + 2)
    ELSE IF OccursAt(s, "{", p) THEN 1 + PlaceholdersFrom(s, CloseOf(s, p) + 1)
    ELSE PlaceholdersFrom(s, p + 1)

Placeholders(s) == PlaceholdersFrom(s, 1)

\* What write! prints for the literal text of a format string: escaped braces
\* become single ones.
RECURSIVE UnescapeFrom(_, _)
UnescapeFrom(s, p) ==
    IF p > Len(s) THEN ""
    ELSE IF OccursAt(s, "{{", p) THEN "{" \o UnescapeFrom(s, p + 2)
    ELSE IF OccursAt(s, "}}", p) THEN "}" \o UnescapeFrom(s, p + 2)
    ELSE SubSeq(s, p, p) \o UnescapeFrom(s, p + 1)

Unescape(s) == UnescapeFrom(s, 1)

-----------------------------------------------------------------------------
\* Option<(String, Vec<quote::Tokens>)>.

None == [some |-> FALSE, fstring |-> "", toks |-> <<>>]

Some(fstring, toks) == [some |-> TRUE, fstring |-> fstring, toks |-> toks]

\* Option<&str> of a field name: NoName is None.
NoName == ""

-----------------------------------------------------------------------------
\* Items and type kinds.

\* The kinds of the first match arm (lines 149-162).
SimpleKinds ==
    {"Void", "NullPtr", "Int", "Float", "Complex", "Function", "Enum",
     "Reference", "BlockPointer", "UnresolvedTypeRef", "ObjCInterface",
     "ObjCId", "Comp", "ObjCSel"}

\* The kinds of the arm at lines 201-203.
AliasKinds == {"ResolvedTypeRef", "TemplateAlias", "Alias"}

\* An item of the context. kind "NotAType" stands for an item that is no type
\* (as_type() is None).
\* inst_opaque: for a TemplateInstantiation, inst.is_opaque(ctx, self).
\* trivial:     for a Function, sig.can_trivially_derive_debug().
\* len:         for an Array, its length.
\* t:           for an alias, a pointer or an array, the id it refers to, else 0.
Item(kind, inst_opaque, trivial, len, t) ==
    [kind |-> kind, inst_opaque |-> inst_opaque, trivial |-> trivial, len |-> len, t |-> t]

\* The context: items[id] is the item with that id.
Context(items, whitelisted, opaque) ==
    [items |-> items, whitelisted |-> whitelisted, opaque |-> opaque]

\* ctx.resolve_item(id)
resolve_item(c, id) == c.items[id]

\* self.as_type().is_some()
as_type(item) == item.kind # "NotAType"

\* item.is_opaque(ctx, &()), for the item with that id.
is_opaque(c, id) == id \in c.opaque

\* ctx.resolve_type(id).canonical_type(ctx): the type with its aliases stripped.
RECURSIVE canonical_type(_, _)
canonical_type(c, id) ==
    IF resolve_item(c, id).kind \in AliasKinds
    THEN canonical_type(c, resolve_item(c, id).t)
    ELSE resolve_item(c, id)

\* Whether the type at id is, through aliases and nested arrays, a generic parameter.
RECURSIVE InvolvesTypeParam(_, _)
InvolvesTypeParam(c, id) ==
    \/ resolve_item(c, id).kind = "TypeParam"
    \/ /\ resolve_item(c, id).kind \in AliasKinds \cup {"Array"}
       /\ InvolvesTypeParam(c, resolve_item(c, id).t)

\* self.has_type_param_in_array(ctx), for an array item.
has_type_param_in_array(c, id) ==
    /\ resolve_item(c, id).kind = "Array"
    /\ InvolvesTypeParam(c, resolve_item(c, id).t)

\* ctx.rust_ident_raw(name): the identifier token with that text.
rust_ident_raw(nm) == nm

-----------------------------------------------------------------------------
\* Item::impl_debug (lines 112-222).

\* Mutant of debug_print: the placeholder without its value.
debug_print_NoValue(nm, name_ident) ==
    Some(nm \o ": {:?}", <<>>)

\* The nested fn debug_print (lines 135-145).
debug_print(nm, name_ident) ==
    Some(nm \o ": {:?}", <<"self." \o name_ident>>)

\* The interpolation value of the large-array arm (lines 190-196).
JoinTokens(name_ident) ==
    "self." \o name_ident
        \o ".iter().enumerate().map(|(i, v)| format!(..., v)).collect::<String>()"

\* Line 124: ctx.whitelisted_items().contains(&self.id())
IsWhitelisted(c, id) == id \in c.whitelisted

\* The arm of the simple cases (lines 149-162).
SimpleArm(nm) == debug_print(nm, rust_ident_raw(nm))

\* The TemplateInstantiation arm (lines 164-170).
TemplateInstantiationArm(item, nm) ==
    IF item.inst_opaque
    THEN Some(nm \o ": opaque", <<>>)
    ELSE debug_print(nm, rust_ident_raw(nm))

\* The TypeParam arm (lines 173-175).
TypeParamArm(nm) == Some(nm \o ": Non-debuggable generic", <<>>)

\* Mutant of ArrayArm: the direct path up to and including the limit.
ArrayArm_Inclusive(c, id, nm) ==
    LET len == resolve_item(c, id).len IN
    IF has_type_param_in_array(c, id)
    THEN Some(nm \o ": Array with length " \o ToString(len), <<>>)
    ELSE IF len <= RUST_DERIVE_IN_ARRAY_LIMIT
    THEN debug_print(nm, rust_ident_raw(nm))
    ELSE Some(nm \o ": [{}]", <<JoinTokens(rust_ident_raw(nm))>>)

\* Mutant of ArrayArm: the length is looked at before the generic parameter.
ArrayArm_LengthFirst(c, id, nm) ==
    LET len == resolve_item(c, id).len IN
    IF len < RUST_DERIVE_IN_ARRAY_LIMIT
    THEN debug_print(nm, rust_ident_raw(nm))
    ELSE IF has_type_param_in_array(c, id)
    THEN Some(nm \o ": Array with length " \o ToString(len), <<>>)
    ELSE Some(nm \o ": [{}]", <<JoinTokens(rust_ident_raw(nm))>>)

\* The Array arm (lines 177-199).
ArrayArm(c, id, nm) ==
    LET len == resolve_item(c, id).len IN
    IF has_type_param_in_array(c, id)
    THEN Some(nm \o ": Array with length " \o ToString(len), <<>>)
    ELSE IF len < RUST_DERIVE_IN_ARRAY_LIMIT
    THEN debug_print(nm, rust_ident_raw(nm))
    ELSE Some(nm \o ": [{}]", <<JoinTokens(rust_ident_raw(nm))>>)

\* Mutant of PointerArm: the pointee is looked at with its aliases on.
PointerArm_NoCanonical(c, id, nm) ==
    LET inner_type == resolve_item(c, resolve_item(c, id).t) IN
    IF inner_type.kind = "Function" /\ ~inner_type.trivial
    THEN Some(nm \o ": FunctionPointer", <<>>)
    ELSE debug_print(nm, rust_ident_raw(nm))

\* The Pointer arm (lines 208-217).
PointerArm(c, id, nm) ==
    LET inner_type == canonical_type(c, resolve_item(c, id).t) IN
    IF inner_type.kind = "Function" /\ ~inner_type.trivial
    THEN Some(nm \o ": FunctionPointer", <<>>)
    ELSE debug_print(nm, rust_ident_raw(nm))

\* What one frame of Item::impl_debug does: it returns `ret`, or (follow) it
\* returns whatever the frame it enters for item `to` returns (line 205).
Return(ret) == [follow |-> FALSE, to |-> 0, ret |-> ret]

Follow(to) == [follow |-> TRUE, to |-> to, ret |-> None]

\* Mutant of AliasArm: an alias is dropped instead of followed.
AliasArm_Dropped(item) == Return(None)

\* The alias arm (lines 201-206).
AliasArm(item) == Follow(item.t)

\* The match on the type kind (lines 147-220).
KindMatch(c, id, nm) ==
    LET item == resolve_item(c, id) IN
    IF item.kind \in SimpleKinds THEN Return(SimpleArm(nm))
    ELSE IF item.kind = "TemplateInstantiation" THEN Return(TemplateInstantiationArm(item, nm))
    ELSE IF item.kind = "TypeParam" THEN Return(TypeParamArm(nm))
    ELSE IF item.kind = "Array" THEN Return(ArrayArm(c, id, nm))
    ELSE IF item.kind \in AliasKinds THEN AliasArm(item)
    ELSE IF item.kind = "Pointer" THEN Return(PointerArm(c, id, nm))
    ELSE Return(None)   \* TypeKind::Opaque (line 219)

\* Mutant of ItemFrame: an item flagged opaque is dropped before the match.
ItemFrame_OpaqueFirst(c, id, nm) ==
    IF ~IsWhitelisted(c, id) THEN Return(None)
    ELSE IF is_opaque(c, id) THEN Return(None)
    ELSE IF ~as_type(resolve_item(c, id)) THEN Return(None)
    ELSE KindMatch(c, id, nm)

\* Mutant of ItemFrame: a pointer is followed into its pointee.
ItemFrame_IntoPointee(c, id, nm) ==
    IF ~IsWhitelisted(c, id) THEN Return(None)
    ELSE IF ~as_type(resolve_item(c, id)) THEN Return(None)
    ELSE IF resolve_item(c, id).kind = "Pointer" THEN Follow(resolve_item(c, id).t)
    ELSE KindMatch(c, id, nm)

\* One frame: the whitelist check (line 124), as_type (line 128), the match.
ItemFrame(c, id, nm) ==
    IF ~IsWhitelisted(c, id) THEN Return(None)
    ELSE IF ~as_type(resolve_item(c, id)) THEN Return(None)
    ELSE KindMatch(c, id, nm)

\* The value of a whole call.
RECURSIVE ItemImplDebug(_, _, _)
ItemImplDebug(c, id, nm) ==
    LET f == ItemFrame(c, id, nm) IN
    IF f.follow THEN ItemImplDebug(c, f.to, nm) ELSE f.ret

-----------------------------------------------------------------------------
\* The inputs of Item::impl_debug: a context and the id of the item resolved.
\* Each item refers to at most one other (an alias to its target, a pointer to
\* its pointee, an array to its element type), so what is reachable from the
\* item resolved is a chain: the context holds that chain, the item resolved
\* last, items[k].t = k - 1. There are no cycles, and a reference always leads
\* to a type. UnresolvedTypeRef is left out: the context has resolved every one
\* of them before code generation.

LeafKinds == (SimpleKinds \ {"Function", "UnresolvedTypeRef"}) \cup {"TypeParam", "Opaque"}

LeafTypes ==
    {Item(k, FALSE, FALSE, 0, 0) : k \in LeafKinds}
    \cup {Item("Function", FALSE, tr, 0, 0) : tr \in BOOLEAN}
    \cup {Item("TemplateInstantiation", io, FALSE, 0, 0) : io \in BOOLEAN}

NotAType == Item("NotAType", FALSE, FALSE, 0, 0)

ArrayLens ==
    {RUST_DERIVE_IN_ARRAY_LIMIT - 1, RUST_DERIVE_IN_ARRAY_LIMIT, RUST_DERIVE_IN_ARRAY_LIMIT + 1}

\* The items that refer to the item with id t.
Referrers(t) ==
    {Item(k, FALSE, FALSE, 0, t) : k \in AliasKinds \cup {"Pointer"}}
    \cup {Item("Array", FALSE, FALSE, n, t) : n \in ArrayLens}

RECURSIVE TypeChains(_)
TypeChains(n) ==
    IF n = 1 THEN {<<l>> : l \in LeafTypes}
    ELSE {Append(c, r) : c \in TypeChains(n - 1), r \in Referrers(n - 1)}

\* The opaque ids of a context of n items: none, the item resolved, or all.
OpaqueSets(n) == {{}, {n}, 1..n}

Labels == {"a"}

\* The id of the item resolved.
Top(c) == Len(c.items)

-----------------------------------------------------------------------------
\* FieldData::impl_debug (lines 68-82). fd.ty is the id of the member's type.
FieldDataImplDebug(c, fd) ==
    IF fd.name # NoName
    THEN ItemImplDebug(c, fd.ty, fd.name)
    ELSE None

\* BitfieldUnit::impl_debug (lines 84-110).
\* One turn of the loop at line 94 for the bitfield bf at index idx (from 0);
\* s holds the locals format_string and tokens.
BitfieldTurn(s, idx, bf) ==
    LET pushed == IF idx > 0 THEN s.format_string \o ", " ELSE s.format_string IN
    IF bf.name # NoName
    THEN [format_string |-> pushed \o bf.name \o " : {:?}",
          tokens |-> Append(s.tokens, "self." \o rust_ident_raw(bf.name) \o " ()")]
    ELSE [format_string |-> pushed, tokens |-> s.tokens]

\* The locals after the first k turns.
RECURSIVE BitfieldLoop(_, _)
BitfieldLoop(bitfields, k) ==
    IF k = 0 THEN [format_string |-> "", tokens |-> <<>>]
    ELSE BitfieldTurn(BitfieldLoop(bitfields, k - 1), k - 1, bitfields[k])

BitfieldUnitImplDebug(bu) ==
    LET s == BitfieldLoop(bu.bitfields, Len(bu.bitfields)) IN
    Some(s.format_string, s.tokens)

\* The closure of filter_map (lines 26-29).
FieldImplDebug(c, f) ==
    IF f.tag = "DataMember"
    THEN FieldDataImplDebug(c, f)
    ELSE BitfieldUnitImplDebug(f)

-----------------------------------------------------------------------------
\* gen_debug_impl (lines 8-51).

\* Line 15: format!("{} {{{{ ", struct_name)
SeedFormatString(struct_name) == struct_name \o " {{ "

\* Mutant of BodyOf: the union is looked at before the opacity.
BodyOf_UnionFirst(c, r) ==
    IF r.kind = "Union" THEN "union"
    ELSE IF is_opaque(c, r.item) THEN "opaque"
    ELSE "fields"

\* Lines 18-41: which body the record gets.
BodyOf(c, r) ==
    IF is_opaque(c, r.item) THEN "opaque"
    ELSE IF r.kind = "Union" THEN "union"
    ELSE "fields"

\* Mutant of PushField: the separator goes before the first field too.
PushField_Always(fs, idx, fstring) ==
    fs \o ", " \o fstring

\* Lines 32-38: the loop body for a processed field, the i-th (from 0) that
\* filter_map lets through.
PushField(fs, idx, fstring) ==
    (IF idx > 0 THEN fs \o ", " ELSE fs) \o fstring

-----------------------------------------------------------------------------
\* The inputs of gen_debug_impl: a record of the context below and its fields.

NoRecord == [item |-> 0, struct_name |-> "", kind |-> "Struct", fields |-> <<>>]

NoOutput == [format_string |-> "", tokens |-> <<>>]

RecordItems ==
    <<Item("Int", FALSE, FALSE, 0, 0),
      Item("Comp", FALSE, FALSE, 0, 0),
      Item("TypeParam", FALSE, FALSE, 0, 0),
      Item("Array", FALSE, FALSE, RUST_DERIVE_IN_ARRAY_LIMIT, 1),
      Item("Comp", FALSE, FALSE, 0, 0),
      Item("Comp", FALSE, FALSE, 0, 0)>>

\* The record whose impl is generated.
RecordItem == Len(RecordItems)

\* Item 2, a record, is not whitelisted.
RecordWhitelist == {1, 3, 4, 5, 6}

\* The item before it is a record that may be opaque.
OpaqueFieldType == RecordItem - 1

\* The opaque ids: none, the record generated, or the record a member may have
\* as its type.
RecordOpaqueSets == {{}, {RecordItem}, {OpaqueFieldType}}

\* The types of the data members.
FieldTypes == {1, 2, 3, 4, OpaqueFieldType}

StructNames == {"Foo"}

\* Which sub-fields of a bitfield unit are named.
BitPatterns ==
    {<<TRUE>>, <<FALSE>>, <<TRUE, TRUE>>, <<FALSE, TRUE>>, <<TRUE, FALSE>>,
     <<TRUE, FALSE, TRUE>>}

\* A field before it is given its place: a data member (named or not) of some
\* type, or a bitfield unit.
FieldShapes ==
    {[tag |-> "DataMember", named |-> TRUE, ty |-> t, pattern |-> <<>>] : t \in FieldTypes}
    \cup {[tag |-> "DataMember", named |-> FALSE, ty |-> 1, pattern |-> <<>>]}
    \cup {[tag |-> "Bitfields", named |-> FALSE, ty |-> 0, pattern |-> p] : p \in BitPatterns}

\* The k-th field of a record is called f<k>, its j-th bitfield b<k><j>.
FieldAt(sh, k) ==
    [tag |-> sh.tag,
     name |-> IF sh.named THEN "f" \o ToString(k) ELSE NoName,
     ty |-> sh.ty,
     bitfields |-> [j \in 1..Len(sh.pattern) |->
                      [name |-> IF sh.pattern[j]
                                THEN "b" \o ToString(k) \o ToString(j)
                                ELSE NoName]]]

InitRecord ==
    /\ mode = "record"
    /\ \E opaque \in RecordOpaqueSets :
          ctx = Context(RecordItems, RecordWhitelist, opaque)
    /\ \E n \in 0..MaxFields :
          \E shapes \in [1..n -> FieldShapes], struct_name \in StructNames,
             kind \in {"Struct", "Union"} :
              rec = [item |-> RecordItem, struct_name |-> struct_name, kind |-> kind,
                     fields |-> [k \in 1..n |-> FieldAt(shapes[k], k)]]
    /\ pc = "gen_debug_impl"
    /\ fi = 1
    /\ i = 0
    /\ format_string = ""
    /\ tokens = <<>>
    /\ ncalls = 0
    /\ out = NoOutput
    /\ name = ""
    /\ cur = 0
    /\ calls = 0
    /\ result = None

itemVars == <<name, cur, calls, result>>

\* Lines 14-24: the seed, and the body of an opaque record or of a union.
GenLiteral ==
    /\ mode = "record"
    /\ pc = "gen_debug_impl"
    /\ BodyOf(ctx, rec) # "fields"
    /\ format_string' = SeedFormatString(rec.struct_name) \o BodyOf(ctx, rec)
    /\ pc' = "close"
    /\ UNCHANGED <<mode, ctx, rec, fi, i, tokens, ncalls, out, itemVars>>

\* Lines 14-26: the seed; the fields of a struct come next.
GenStruct ==
    /\ mode = "record"
    /\ pc = "gen_debug_impl"
    /\ BodyOf(ctx, rec) = "fields"
    /\ format_string' = SeedFormatString(rec.struct_name)
    /\ pc' = "fields"
    /\ UNCHANGED <<mode, ctx, rec, fi, i, tokens, ncalls, out, itemVars>>

\* Lines 26-38: the iterator yields the next field and filter_map keeps it.
FieldKept ==
    /\ mode = "record"
    /\ pc = "fields"
    /\ fi <= Len(rec.fields)
    /\ LET r == FieldImplDebug(ctx, rec.fields[fi]) IN
          /\ r.some
          /\ format_string' = PushField(format_string, i, r.fstring)
          /\ tokens' = tokens \o r.toks
    /\ i' = i + 1
    /\ fi' = fi + 1
    /\ ncalls' = ncalls + 1
    /\ UNCHANGED <<mode, ctx, rec, out, pc, itemVars>>

\* Lines 26-29: the iterator yields the next field and filter_map drops it.
FieldDropped ==
    /\ mode = "record"
    /\ pc = "fields"
    /\ fi <= Len(rec.fields)
    /\ ~FieldImplDebug(ctx, rec.fields[fi]).some
    /\ fi' = fi + 1
    /\ ncalls' = ncalls + 1
    /\ UNCHANGED <<mode, ctx, rec, i, format_string, tokens, out, pc, itemVars>>

\* Lines 43-50: the closing brace, and the format string goes first.
Close ==
    /\ mode = "record"
    /\ \/ pc = "close"
       \/ pc = "fields" /\ fi > Len(rec.fields)
    /\ format_string' = format_string \o " }}"
    /\ out' = [format_string |-> format_string', tokens |-> tokens]
    /\ pc' = "done"
    /\ UNCHANGED <<mode, ctx, rec, fi, i, tokens, ncalls, itemVars>>

-----------------------------------------------------------------------------
\* One call of Item::impl_debug, a frame at a time.

InitItem ==
    /\ mode = "item"
    /\ \E n \in 1..MaxChain :
        \E items \in TypeChains(n) \cup (IF n = 1 THEN {<<NotAType>>} ELSE {}) :
            \E whitelisted \in SUBSET (1..n), opaque \in OpaqueSets(n) :
                ctx = Context(items, whitelisted, opaque)
    /\ name \in Labels
    /\ cur = Top(ctx)
    /\ calls = 1
    /\ result = None
    /\ pc = "impl_debug"
    /\ rec = NoRecord
    /\ fi = 0
    /\ i = 0
    /\ format_string = ""
    /\ tokens = <<>>
    /\ ncalls = 0
    /\ out = NoOutput

recordVars == <<rec, fi, i, format_string, tokens, ncalls, out>>

\* Line 205: the frame for `cur` calls impl_debug on the alias's target.
ItemFollow ==
    /\ mode = "item"
    /\ pc = "impl_debug"
    /\ ItemFrame(ctx, cur, name).follow
    /\ cur' = ItemFrame(ctx, cur, name).to
    /\ calls' = calls + 1
    /\ UNCHANGED <<mode, ctx, name, result, pc, recordVars>>

\* Any other arm: the frame returns, and so do the frames that called it.
ItemReturn ==
    /\ mode = "item"
    /\ pc = "impl_debug"
    /\ ~ItemFrame(ctx, cur, name).follow
    /\ result' = ItemFrame(ctx, cur, name).ret
    /\ pc' = "done"
    /\ UNCHANGED <<mode, ctx, name, cur, calls, recordVars>>

-----------------------------------------------------------------------------
Init == InitItem \/ InitRecord

Next ==
    \/ ItemFollow
    \/ ItemReturn
    \/ GenLiteral
    \/ GenStruct
    \/ FieldKept
    \/ FieldDropped
    \/ Close

Spec == Init /\ [][Next]_vars

\* A call, once entered, runs: nothing but the call's own steps is scheduled.
FairSpec == Spec /\ WF_vars(Next)

-----------------------------------------------------------------------------
\* Vocabulary of the properties.

ItemDone == mode = "item" /\ pc = "done"

RecordDone == mode = "record" /\ pc = "done"

\* The strings of seq joined by sep.
RECURSIVE JoinStrings(_, _)
JoinStrings(seq, sep) ==
    IF Len(seq) = 0 THEN ""
    ELSE IF Len(seq) = 1 THEN seq[1]
    ELSE seq[1] \o sep \o JoinStrings(Tail(seq), sep)

\* The sequences of seq, one after the other.
RECURSIVE Flatten(_)
Flatten(seq) ==
    IF Len(seq) = 0 THEN <<>> ELSE seq[1] \o Flatten(Tail(seq))

\* What stands between "<Name> {{ " and " }}" in a finished format string.
BodyText(fs, struct_name) ==
    SubSeq(fs, Len(struct_name) + 5, Len(fs) - 3)

\* A leading, a trailing or a doubled separator.
StraySeparator(body) ==
    \/ StartsWith(body, ", ")
    \/ EndsWith(body, ", ")
    \/ Contains(body, ", , ")

\* In a context that holds a chain: the item at which the aliases from id end.
AliasEnd(c, id) ==
    CHOOSE k \in 1..id :
        /\ resolve_item(c, k).kind \notin AliasKinds
        /\ \A j \in (k + 1)..id : resolve_item(c, j).kind \in AliasKinds

\* What the resolver is to return for a data member: nothing for an unnamed one.
Resolved(c, f) ==
    IF f.name = NoName THEN None ELSE ItemImplDebug(c, f.ty, f.name)

\* The fragments a field is to contribute: a data member its resolver result,
\* if any; a bitfield unit one fragment for each named sub-field.
FragmentsOf(c, f) ==
    IF f.tag = "DataMember"
    THEN (IF Resolved(c, f).some THEN <<Resolved(c, f)>> ELSE <<>>)
    ELSE LET named == SelectSeq(f.bitfields, LAMBDA bf : bf.name # NoName) IN
         [j \in 1..Len(named) |->
            Some(named[j].name \o " : {:?}", <<"self." \o named[j].name \o " ()">>)]

AllFragments(c, fields) ==
    Flatten([k \in 1..Len(fields) |-> FragmentsOf(c, fields[k])])

Templates(frags) == [k \in 1..Len(frags) |-> frags[k].fstring]

Values(frags) == Flatten([k \in 1..Len(frags) |-> frags[k].toks])

AllDataMembers(fields) == \A k \in 1..Len(fields) : fields[k].tag = "DataMember"

-----------------------------------------------------------------------------
\* C1. Placeholder/value parity: the format string gen_debug_impl hands to
\* write! has as many placeholders as values follow it, and every fragment the
\* resolver returns, and every fragment a field of the record yields (a data
\* member's or a bitfield unit's), has as many placeholders as values.
C1_Parity ==
    /\ RecordDone =>
          /\ Placeholders(out.format_string) = Len(out.tokens)
          /\ \A k \in 1..Len(rec.fields) :
                LET r == FieldImplDebug(ctx, rec.fields[k]) IN
                r.some => Placeholders(r.fstring) = Len(r.toks)
    /\ ItemDone /\ result.some => Placeholders(result.fstring) = Len(result.toks)

\* A struct whose three fields yield a debug value, a joined array and two
\* bitfield getters.
C1_Witness ==
    /\ RecordDone
    /\ BodyOf(ctx, rec) = "fields"
    /\ Len(rec.fields) = 3
    /\ rec.fields[1].tag = "DataMember" /\ rec.fields[1].name # NoName /\ rec.fields[1].ty = 1
    /\ rec.fields[2].tag = "DataMember" /\ rec.fields[2].name # NoName /\ rec.fields[2].ty = 4
    /\ rec.fields[3].tag = "Bitfields" /\ Len(rec.fields[3].bitfields) = 3
    /\ Len(out.tokens) = 4

\* C2. A non-opaque struct of data members: the body is the templates of the
\* fields the resolver does not drop, in order, joined by ", "; the values are
\* theirs in the same order; a dropped field leaves no label and no separator.
C2_OmissionNoStraySeparator ==
    RecordDone /\ BodyOf(ctx, rec) = "fields" /\ AllDataMembers(rec.fields) =>
        LET kept == AllFragments(ctx, rec.fields)
            body == BodyText(out.format_string, rec.struct_name)
        IN /\ out.format_string
                = rec.struct_name \o " {{ " \o JoinStrings(Templates(kept), ", ") \o " }}"
           /\ out.tokens = Values(kept)
           /\ ~StraySeparator(body)
           /\ \A k \in 1..Len(rec.fields) :
                 ~Resolved(ctx, rec.fields[k]).some =>
                     ~Contains(body, "f" \o ToString(k))

\* Three data members, the middle one of a type that is not whitelisted.
C2_Witness ==
    /\ RecordDone
    /\ BodyOf(ctx, rec) = "fields"
    /\ Len(rec.fields) = 3
    /\ AllDataMembers(rec.fields)
    /\ \A k \in 1..3 : rec.fields[k].name # NoName
    /\ rec.fields[1].ty = 1
    /\ rec.fields[2].ty = 2
    /\ rec.fields[3].ty = 3
    /\ out.format_string = "Foo {{ f1: {:?}, f3: Non-debuggable generic }}"
    /\ out.tokens = <<"self.f1">>

\* C3. Bitfield expansion: in a non-opaque struct a bitfield unit contributes
\* one fragment "<name> : {:?}" with one getter call for each named sub-field,
\* joined by ", ", and an unnamed sub-field contributes nothing: no empty
\* segment, no leading, trailing or doubled separator.
C3_BitfieldExpansion ==
    RecordDone /\ BodyOf(ctx, rec) = "fields" =>
        LET frags == AllFragments(ctx, rec.fields)
            body == BodyText(out.format_string, rec.struct_name)
        IN /\ body = JoinStrings(Templates(frags), ", ")
           /\ out.tokens = Values(frags)
           /\ ~StraySeparator(body)

\* In item mode: the item resolved is a whitelisted type of that kind.
ResolvedIs(kind) ==
    /\ ItemDone
    /\ IsWhitelisted(ctx, Top(ctx))
    /\ resolve_item(ctx, Top(ctx)).kind = kind

\* The fragment of case 3: "<label>: {:?}" with the field itself as its value.
Direct(nm) == Some(nm \o ": {:?}", <<"self." \o nm>>)

\* The fragment of the manual path: "<label>: [{}]" with the joined string.
Manual(nm) == Some(nm \o ": [{}]", <<JoinTokens(nm)>>)

\* C4 as stated. Array threshold boundary: a whitelisted array with no generic
\* parameter in it takes the direct path at a length equal to the threshold,
\* and the manual path from the threshold plus one on.
C4_AsStated ==
    ResolvedIs("Array") /\ ~has_type_param_in_array(ctx, Top(ctx)) =>
        LET len == resolve_item(ctx, Top(ctx)).len IN
        /\ len = RUST_DERIVE_IN_ARRAY_LIMIT => result = Direct(name)
        /\ len > RUST_DERIVE_IN_ARRAY_LIMIT => result = Manual(name)

\* C4 as amended. A whitelisted array with no generic parameter in it takes the
\* direct path only at a length below the threshold, and the manual path, with
\* its one string-valued placeholder, at the threshold and above.
C4_ArrayThreshold ==
    ResolvedIs("Array") /\ ~has_type_param_in_array(ctx, Top(ctx)) =>
        LET len == resolve_item(ctx, Top(ctx)).len IN
        /\ len < RUST_DERIVE_IN_ARRAY_LIMIT => result = Direct(name)
        /\ len >= RUST_DERIVE_IN_ARRAY_LIMIT =>
              /\ result = Manual(name)
              /\ Placeholders(result.fstring) = 1
              /\ Contains(result.fstring, "{}")

\* An array of ints whose length is the threshold, rendered by the manual path.
C4_Witness ==
    /\ ResolvedIs("Array")
    /\ resolve_item(ctx, Top(ctx)).len = RUST_DERIVE_IN_ARRAY_LIMIT
    /\ resolve_item(ctx, Top(ctx) - 1).kind = "Int"
    /\ result = Manual(name)

C6_OpaqueAndUnion ==
    RecordDone =>
        /\ is_opaque(ctx, rec.item) =>
              /\ Unescape(out.format_string) = rec.struct_name \o " { opaque }"
              /\ out.tokens = <<>>
              /\ ncalls = 0
        /\ ~is_opaque(ctx, rec.item) /\ rec.kind = "Union" =>
              /\ Unescape(out.format_string) = rec.struct_name \o " { union }"
              /\ out.tokens = <<>>
              /\ ncalls = 0

\* An opaque union of three renderable fields.
C6_Witness ==
    /\ RecordDone
    /\ is_opaque(ctx, rec.item)
    /\ rec.kind = "Union"
    /\ Len(rec.fields) = 3
    /\ \A k \in 1..3 : FieldImplDebug(ctx, rec.fields[k]).some
    /\ out.format_string = "Foo {{ opaque }}"

\* C7 as stated. Alias transparency: an alias resolves to what the item its
\* chain ends in resolves to under the same label.
C7_AsStated ==
    ItemDone /\ resolve_item(ctx, Top(ctx)).kind \in AliasKinds =>
        result = ItemImplDebug(ctx, AliasEnd(ctx, Top(ctx)), name)

\* C7 as amended. An alias all of whose chain's aliases are whitelisted
\* resolves to what the item the chain ends in resolves to under the same
\* label; a chain with an alias that is not whitelisted resolves to None.
C7_AliasTransparency ==
    ItemDone /\ resolve_item(ctx, Top(ctx)).kind \in AliasKinds =>
        LET end == AliasEnd(ctx, Top(ctx)) IN
        IF \A j \in (end + 1)..Top(ctx) : IsWhitelisted(ctx, j)
        THEN result = ItemImplDebug(ctx, end, name)
        ELSE result = None

\* Two whitelisted aliases on a generic parameter.
C7_Witness ==
    /\ ItemDone
    /\ Top(ctx) = 3
    /\ resolve_item(ctx, 3).kind = "Alias"
    /\ resolve_item(ctx, 2).kind = "ResolvedTypeRef"
    /\ resolve_item(ctx, 1).kind = "TypeParam"
    /\ ctx.whitelisted = {1, 2, 3}
    /\ result = Some(name \o ": Non-debuggable generic", <<>>)

\* C8. A whitelisted array whose element type involves a generic parameter
\* resolves to "<label>: Array with length <N>" with no value, at every length.
C8_GenericArray ==
    ResolvedIs("Array") /\ InvolvesTypeParam(ctx, Top(ctx) - 1) =>
        LET len == resolve_item(ctx, Top(ctx)).len IN
        /\ result = Some(name \o ": Array with length " \o ToString(len), <<>>)
        /\ ~Contains(result.fstring, "Non-debuggable generic")

\* An array below the threshold of an alias of a generic parameter, which by
\* itself resolves to the generic marker.
C8_Witness ==
    /\ ResolvedIs("Array")
    /\ Top(ctx) = 3
    /\ resolve_item(ctx, 3).len = RUST_DERIVE_IN_ARRAY_LIMIT - 1
    /\ resolve_item(ctx, 2).kind = "Alias"
    /\ resolve_item(ctx, 1).kind = "TypeParam"
    /\ ctx.whitelisted = {1, 2, 3}
    /\ ItemImplDebug(ctx, 2, name) = Some(name \o ": Non-debuggable generic", <<>>)
    /\ result = Some(name \o ": Array with length 31", <<>>)

\* C9. A whitelisted pointer resolves to "<label>: FunctionPointer" with no
\* value exactly when the pointee, its aliases stripped, is a function whose
\* signature cannot derive Debug trivially, and to the direct fragment of the
\* pointer itself otherwise, whatever the pointee: never to None.
C9_FunctionPointer ==
    ResolvedIs("Pointer") =>
        LET pointee == resolve_item(ctx, AliasEnd(ctx, Top(ctx) - 1)) IN
        /\ result.some
        /\ IF pointee.kind = "Function" /\ ~pointee.trivial
           THEN result = Some(name \o ": FunctionPointer", <<>>)
           ELSE result = Direct(name)

\* A pointer to an alias of a function that cannot derive Debug.
C9_Witness ==
    /\ ResolvedIs("Pointer")
    /\ Top(ctx) = 3
    /\ resolve_item(ctx, 2).kind \in AliasKinds
    /\ resolve_item(ctx, 1).kind = "Function"
    /\ ~resolve_item(ctx, 1).trivial
    /\ result = Some(name \o ": FunctionPointer", <<>>)

\* The resolver enters at most one frame for each alias of the chain and one
\* more, and never goes below the item the aliases end in; gen_debug_impl calls
\* impl_debug once for each field of a non-opaque struct, and for no field of
\* an opaque record or a union.
C10_StepBound ==
    /\ mode = "item" =>
          /\ calls <= (Top(ctx) - AliasEnd(ctx, Top(ctx))) + 1
          /\ cur >= AliasEnd(ctx, Top(ctx))
          /\ calls = (Top(ctx) - cur) + 1
    /\ mode = "record" =>
          /\ ncalls <= Len(rec.fields)
          /\ pc = "done" =>
                ncalls = IF BodyOf(ctx, rec) = "fields" THEN Len(rec.fields) ELSE 0

\* C10. Termination: every call of the resolver and of gen_debug_impl returns,
\* within the bounds on frames and field calls of C10_StepBound.
C10_Termination == <>(pc = "done") /\ []C10_StepBound

\* A call through two aliases has returned after three frames.
C10_Witness ==
    /\ ItemDone
    /\ Top(ctx) = 3
    /\ AliasEnd(ctx, 3) = 1
    /\ calls = 3
    /\ result.some

====
